---- MODULE Spec2Model ----
(***************************************************************************)
(* Model of generate_mock_jwts.py: main() prints a header line, then       *)
(* drives the generator load_private_keys() and, for every (key_id, key)   *)
(* pair it yields, signs a mock JWT and prints one token line.             *)
(*                                                                         *)
(* The key-store file is the input.  It is either missing, not valid JSON, *)
(* valid JSON that is not an object, or a JSON object given by the         *)
(* sequence of its members as written in the document (duplicate names     *)
(* allowed, as json.load accepts them).  A member value is abstracted to   *)
(* what jwcrypto does with it: "rsa_private" parses and signs,             *)
(* "rsa_public" (no private exponent) parses but cannot sign, "malformed"  *)
(* does not parse as a JWK.  `mat` identifies the key material.            *)
(***************************************************************************)
EXTENDS Integers, Sequences, FiniteSets, TLC

\* Bounds of the model.
MaxEntries == 3
NumKeyIds == 3
NumMaterials == 2

KeyIds == 1..NumKeyIds
Materials == 1..NumMaterials
Kinds == {"rsa_private", "rsa_public", "malformed"}

\* A malformed value carries no key material.
JWKValues ==
  [kind : {"rsa_private", "rsa_public"}, mat : Materials]
    \cup {[kind |-> "malformed", mat |-> 0]}
Members == [key : KeyIds, value : JWKValues]
Documents == UNION {[1..n -> Members] : n \in 0..MaxEntries}

Files ==
  {[kind |-> k, members |-> <<>>] : k \in {"missing", "invalid_json", "not_object"}}
    \cup {[kind |-> "object", members |-> d] : d \in Documents}

KEY_STORE_PATH == "test_data/mock_private_keys.json"

HeaderLine == [type |-> "header", path |-> KEY_STORE_PATH]

Payload == [foo |-> "bar", bin |-> "baz"]

NoKey == [has_private |-> FALSE, mat |-> 0]
NoToken == <<>>

VARIABLES file, pc, fd_open, exc, data, idx, key_id, key, token, stdout,
          exit_code, events

vars == <<file, pc, fd_open, exc, data, idx, key_id, key, token, stdout,
          exit_code, events>>

Ev(op, i) == [op |-> op, i |-> i]

----------------------------------------------------------------------------
\* json.load: building the dict from the members of the document.

DictHas(d, k) == \E i \in 1..Len(d) : d[i].key = k

\* Mutant: an assignment to an existing name moves the entry to the end.
DictSet_MoveToEnd(d, k, v) ==
  Append(SelectSeq(d, LAMBDA m : m.key # k), [key |-> k, value |-> v])

\* Mutant: an assignment to an existing name keeps the first value.
DictSet_KeepFirst(d, k, v) ==
  IF DictHas(d, k) THEN d ELSE Append(d, [key |-> k, value |-> v])

\* d[k] = v on an insertion-ordered dict: an existing name keeps its
\* position and takes the new value, a new name is appended.
DictSet(d, k, v) ==
  IF DictHas(d, k)
    THEN [i \in 1..Len(d) |->
            IF d[i].key = k THEN [key |-> k, value |-> v] ELSE d[i]]
    ELSE Append(d, [key |-> k, value |-> v])

RECURSIVE JsonLoadFrom(_, _, _)
JsonLoadFrom(doc, i, d) ==
  IF i > Len(doc) THEN d
  ELSE JsonLoadFrom(doc, i + 1, DictSet(d, doc[i].key, doc[i].value))

JsonLoad(doc) == JsonLoadFrom(doc, 1, <<>>)

\* jwk.JWK.from_json(json.dumps(value)): a value that is not a JWK raises,
\* an RSA JWK without the private exponent parses as a public key.
FromJson(value) ==
  IF value.kind = "malformed"
    THEN [ok |-> FALSE, key |-> NoKey]
    ELSE [ok |-> TRUE,
          key |-> [has_private |-> (value.kind = "rsa_private"),
                   mat |-> value.mat]]

\* Mutant: signing does not require the private part of the key.
MakeSignedToken_NoPrivateCheck(header, claims, k) ==
  [ok |-> TRUE, sig |-> [signer |-> k.mat, over |-> <<header, claims>>]]

\* token.make_signed_token(key): RS256 over header and claims; fails for
\* a key without private part.
MakeSignedToken(header, claims, k) ==
  IF k.has_private
    THEN [ok |-> TRUE, sig |-> [signer |-> k.mat, over |-> <<header, claims>>]]
    ELSE [ok |-> FALSE, sig |-> [signer |-> 0, over |-> <<header, claims>>]]

\* token.serialize(): the three segments of the compact form.
Serialize(header, claims, sig) == <<header, claims, sig>>

sign_mock_jwt(kid, k) ==
  LET header == [alg |-> "RS256", kid |-> kid]
      signed == MakeSignedToken(header, Payload, k)
  IN [ok |-> signed.ok, token |-> Serialize(header, Payload, signed.sig)]

\* End of "for key, value in data.items()".
Exhausted_OffByOne(d, i) == i >= Len(d)

Exhausted(d, i) == i > Len(d)

\* Exit status of the interpreter: 1 after an uncaught exception.
ExitStatus_AlwaysZero(uncaught) == IF uncaught THEN 0 ELSE 0

ExitStatus(uncaught) == IF uncaught THEN 1 ELSE 0

----------------------------------------------------------------------------
Init ==
  /\ file \in Files
  /\ pc = "main"
  /\ fd_open = FALSE
  /\ exc = FALSE
  /\ data = <<>>
  /\ idx = 0
  /\ key_id = 0
  /\ key = NoKey
  /\ token = NoToken
  /\ stdout = <<>>
  /\ exit_code = -1
  /\ events = <<>>

\* Mutant: the header line is not written.
PrintHeader_Silent ==
  /\ pc = "main"
  /\ pc' = "gen_start"
  /\ events' = Append(events, Ev("print_header", 0))
  /\ UNCHANGED <<file, fd_open, exc, data, idx, key_id, key, token, stdout,
                 exit_code>>

\* main(), line 39; line 41 then creates the generator, whose body has not
\* started.
PrintHeader ==
  /\ pc = "main"
  /\ stdout' = Append(stdout, HeaderLine)
  /\ pc' = "gen_start"
  /\ events' = Append(events, Ev("print_header", 0))
  /\ UNCHANGED <<file, fd_open, exc, data, idx, key_id, key, token,
                 exit_code>>

\* Mutant: a missing file is treated as an empty key store.
OpenFile_IgnoreMissing ==
  /\ pc = "gen_start"
  /\ IF file.kind = "missing"
       THEN /\ pc' = "for_items"
            /\ idx' = 1
            /\ events' = Append(events, Ev("open", 0))
            /\ UNCHANGED <<fd_open>>
       ELSE /\ fd_open' = TRUE
            /\ pc' = "json_load"
            /\ events' = Append(events, Ev("open", 0))
            /\ UNCHANGED <<idx>>
  /\ UNCHANGED <<file, exc, data, key_id, key, token, stdout, exit_code>>

\* First next() on the generator: KEY_STORE_PATH.open(), line 14.
OpenFile ==
  /\ pc = "gen_start"
  /\ IF file.kind = "missing"
       THEN /\ pc' = "exited"
            /\ exit_code' = ExitStatus(TRUE)
            /\ events' = events \o <<Ev("open", 0), Ev("raise", 0)>>
            /\ UNCHANGED <<fd_open>>
       ELSE /\ fd_open' = TRUE
            /\ pc' = "json_load"
            /\ events' = Append(events, Ev("open", 0))
            /\ UNCHANGED <<exit_code>>
  /\ UNCHANGED <<file, exc, data, idx, key_id, key, token, stdout>>

\* json.load(fd), line 15, inside the with block.
LoadJson ==
  /\ pc = "json_load"
  /\ IF file.kind = "invalid_json"
       THEN /\ exc' = TRUE
            /\ events' = events \o <<Ev("json_load", 0), Ev("raise", 0)>>
            /\ UNCHANGED <<data>>
       ELSE /\ data' = JsonLoad(file.members)
            /\ events' = Append(events, Ev("json_load", 0))
            /\ UNCHANGED <<exc>>
  /\ pc' = "with_exit"
  /\ UNCHANGED <<file, fd_open, idx, key_id, key, token, stdout, exit_code>>

\* Mutant: the file is left open when the with block is left.
CloseFile_Leak ==
  /\ pc = "with_exit"
  /\ IF exc
       THEN /\ pc' = "exited"
            /\ exit_code' = ExitStatus(TRUE)
            /\ UNCHANGED <<idx>>
       ELSE /\ pc' = "for_items"
            /\ idx' = 1
            /\ UNCHANGED <<exit_code>>
  /\ UNCHANGED <<file, fd_open, exc, data, key_id, key, token, stdout, events>>

\* Leaving the with block, line 14: the file is closed, a pending exception
\* propagates, otherwise the loop of line 17 starts.
CloseFile ==
  /\ pc = "with_exit"
  /\ fd_open' = FALSE
  /\ events' = Append(events, Ev("close", 0))
  /\ IF exc
       THEN /\ pc' = "exited"
            /\ exit_code' = ExitStatus(TRUE)
            /\ UNCHANGED <<idx>>
       ELSE /\ pc' = "for_items"
            /\ idx' = 1
            /\ UNCHANGED <<exit_code>>
  /\ UNCHANGED <<file, exc, data, key_id, key, token, stdout>>

\* Mutant: an entry that does not parse is skipped.
NextEntry_SkipMalformed ==
  /\ pc = "for_items"
  /\ IF file.kind = "not_object"
       THEN /\ pc' = "exited"
            /\ exit_code' = ExitStatus(TRUE)
            /\ events' = Append(events, Ev("raise", 0))
            /\ UNCHANGED <<key_id, key, idx>>
       ELSE IF Exhausted(data, idx)
         THEN /\ pc' = "exited"
              /\ exit_code' = ExitStatus(FALSE)
              /\ UNCHANGED <<key_id, key, events, idx>>
         ELSE LET parsed == FromJson(data[idx].value) IN
              IF parsed.ok
                THEN /\ key_id' = data[idx].key
                     /\ key' = parsed.key
                     /\ pc' = "sign"
                     /\ events' = Append(events, Ev("from_json", idx))
                     /\ UNCHANGED <<exit_code, idx>>
                ELSE /\ pc' = "for_items"
                     /\ idx' = idx + 1
                     /\ events' = events \o
                                    <<Ev("from_json", idx), Ev("raise", idx)>>
                     /\ UNCHANGED <<key_id, key, exit_code>>
  /\ UNCHANGED <<file, fd_open, exc, data, token, stdout>>

\* One iteration request of main's for loop, lines 41 and 17-18: the
\* generator takes the next item of data and parses its JWK, or ends.
NextEntry ==
  /\ pc = "for_items"
  /\ IF file.kind = "not_object"
       THEN /\ pc' = "exited"
            /\ exit_code' = ExitStatus(TRUE)
            /\ events' = Append(events, Ev("raise", 0))
            /\ UNCHANGED <<key_id, key>>
       ELSE IF Exhausted(data, idx)
         THEN /\ pc' = "exited"
              /\ exit_code' = ExitStatus(FALSE)
              /\ UNCHANGED <<key_id, key, events>>
         ELSE LET parsed == FromJson(data[idx].value) IN
              IF parsed.ok
                THEN /\ key_id' = data[idx].key
                     /\ key' = parsed.key
                     /\ pc' = "sign"
                     /\ events' = Append(events, Ev("from_json", idx))
                     /\ UNCHANGED <<exit_code>>
                ELSE /\ pc' = "exited"
                     /\ exit_code' = ExitStatus(TRUE)
                     /\ events' = events \o
                                    <<Ev("from_json", idx), Ev("raise", idx)>>
                     /\ UNCHANGED <<key_id, key>>
  /\ UNCHANGED <<file, fd_open, exc, data, idx, token, stdout>>

\* Mutant: a signing failure is caught and the loop goes on.
SignToken_SkipOnFail ==
  /\ pc = "sign"
  /\ LET signed == sign_mock_jwt(key_id, key) IN
       IF signed.ok
         THEN /\ token' = signed.token
              /\ pc' = "print"
              /\ events' = Append(events, Ev("sign", idx))
              /\ UNCHANGED <<idx>>
         ELSE /\ pc' = "for_items"
              /\ idx' = idx + 1
              /\ events' = events \o <<Ev("sign", idx), Ev("raise", idx)>>
              /\ UNCHANGED <<token>>
  /\ UNCHANGED <<file, fd_open, exc, data, key_id, key, stdout, exit_code>>

\* token = sign_mock_jwt(key_id, key), line 42.
SignToken ==
  /\ pc = "sign"
  /\ LET signed == sign_mock_jwt(key_id, key) IN
       IF signed.ok
         THEN /\ token' = signed.token
              /\ pc' = "print"
              /\ events' = Append(events, Ev("sign", idx))
              /\ UNCHANGED <<exit_code>>
         ELSE /\ pc' = "exited"
              /\ exit_code' = ExitStatus(TRUE)
              /\ events' = events \o <<Ev("sign", idx), Ev("raise", idx)>>
              /\ UNCHANGED <<token>>
  /\ UNCHANGED <<file, fd_open, exc, data, idx, key_id, key, stdout>>

\* print(f" - {key_id}: {token}"), line 43; the loop then resumes the
\* generator at the next item.
PrintToken ==
  /\ pc = "print"
  /\ stdout' = Append(stdout, [type |-> "token", key_id |-> key_id,
                               token |-> token])
  /\ events' = Append(events, Ev("print_token", idx))
  /\ idx' = idx + 1
  /\ pc' = "for_items"
  /\ UNCHANGED <<file, fd_open, exc, data, key_id, key, token, exit_code>>

Next ==
  \/ PrintHeader
  \/ OpenFile
  \/ LoadJson
  \/ CloseFile
  \/ NextEntry
  \/ SignToken
  \/ PrintToken

Spec == Init /\ [][Next]_vars

\* The interpreter runs the single thread until it exits.
FairSpec == Spec /\ WF_vars(Next)

----------------------------------------------------------------------------
\* Vocabulary of the properties, stated on the document as written.

Doc == file.members

DocKeys == {Doc[i].key : i \in 1..Len(Doc)}

\* Number of entries of the key store: its distinct names.
NumEntries == Cardinality(DocKeys)

Min(S) == CHOOSE x \in S : \A y \in S : x <= y
Max(S) == CHOOSE x \in S : \A y \in S : y <= x

FirstPos(k) == Min({i \in 1..Len(Doc) : Doc[i].key = k})
LastPos(k) == Max({i \in 1..Len(Doc) : Doc[i].key = k})

\* Position of name k in the insertion order of the key store.
Rank(k) == Cardinality({j \in DocKeys : FirstPos(j) <= FirstPos(k)})

\* The JWK stored under name k: the last value written for it.
StoredValue(k) == Doc[LastPos(k)].value

TokenLines == SelectSeq(stdout, LAMBDA l : l.type = "token")
HeaderLines == SelectSeq(stdout, LAMBDA l : l.type = "header")

WellFormed ==
  /\ file.kind = "object"
  /\ \A k \in DocKeys : StoredValue(k).kind = "rsa_private"

\* Ranks of the entries that fail to parse or to sign.
FailRanks ==
  {Rank(k) : k \in {j \in DocKeys : StoredValue(j).kind # "rsa_private"}}

Exited == pc = "exited"

\* Signature check with the public counterpart of a stored JWK.
Verifies(t, value) ==
  /\ t[3].signer = value.mat
  /\ t[3].over = <<t[1], t[2]>>

Before(e1, p) == \E q \in 1..(p - 1) : events[q] = e1

WorkOps == {"open", "json_load", "from_json", "sign", "print_token"}

----------------------------------------------------------------------------
\* C1: for a well-formed key store with N entries, a complete run emits
\* exactly one header line and exactly N token lines.
C1_LineCount ==
  (Exited /\ WellFormed) =>
    /\ Len(HeaderLines) = 1
    /\ Len(TokenLines) = NumEntries
    /\ Len(stdout) = NumEntries + 1

C1_Witness ==
  /\ Exited /\ WellFormed
  /\ NumEntries >= 2
  /\ Len(Doc) > NumEntries
  /\ Len(TokenLines) = NumEntries

\* C2: the header line precedes every token line, and the i-th token line
\* carries the identifier of the i-th entry of the key store in insertion
\* order.
C2_LoadOrder ==
  /\ stdout # <<>> => stdout[1] = HeaderLine
  /\ \A p \in 2..Len(stdout) :
       /\ stdout[p].type = "token"
       /\ stdout[p].key_id \in DocKeys
       /\ Rank(stdout[p].key_id) = p - 1

C2_Witness ==
  /\ Len(stdout) = 3
  /\ Len(Doc) = 3
  /\ Doc[1].key = Doc[3].key
  /\ Doc[1].key # Doc[2].key

\* C3: every token line pairs its identifier with a token whose header is
\* {alg: RS256, kid: that identifier}, whose payload is the fixed payload,
\* and whose signature verifies against the key stored under that
\* identifier.
C3_TokenOfSameEntry ==
  \A p \in 1..Len(stdout) :
    stdout[p].type = "token" =>
      LET l == stdout[p] IN
        /\ Len(l.token) = 3
        /\ l.token[1] = [alg |-> "RS256", kid |-> l.key_id]
        /\ l.token[2] = Payload
        /\ l.key_id \in DocKeys
        /\ StoredValue(l.key_id).kind = "rsa_private"
        /\ Verifies(l.token, StoredValue(l.key_id))

C3_Witness ==
  /\ Len(stdout) = 3
  /\ stdout[2].token[3].signer # stdout[3].token[3].signer
  /\ Len(Doc) = 3
  /\ Doc[1].key = Doc[3].key
  /\ Doc[1].value.mat # Doc[3].value.mat

\* C4: with a missing key-store file the program terminates with a
\* non-zero exit status and no token line is ever produced.
C4_MissingFile ==
  /\ [](file.kind = "missing" => Len(TokenLines) = 0)
  /\ [](file.kind = "missing" /\ Exited => exit_code # 0)
  /\ (file.kind = "missing") ~> Exited

C4_Witness ==
  /\ file.kind = "missing"
  /\ Exited
  /\ exit_code # 0
  /\ stdout = <<HeaderLine>>

\* C5: when an entry's JWK lacks the private exponent, the program
\* terminates with a non-zero exit status, and no token line is produced
\* for that entry or for any later entry.
C5_NoPrivateExponent ==
  LET Public == {k \in DocKeys : StoredValue(k).kind = "rsa_public"} IN
    /\ [](\A k \in Public : \A p \in 1..Len(stdout) :
            stdout[p].type = "token" => Rank(stdout[p].key_id) < Rank(k))
    /\ [](Public # {} /\ Exited => exit_code # 0)
    /\ (file.kind = "object" /\ Public # {}) ~> Exited

C5_Witness ==
  /\ Exited
  /\ exit_code # 0
  /\ Len(Doc) = 3
  /\ NumEntries = 3
  /\ Doc[1].value.kind = "rsa_private"
  /\ Doc[2].value.kind = "rsa_public"
  /\ Doc[3].value.kind = "rsa_private"
  /\ Len(TokenLines) = 1

\* C6: a failure ends the run: after a failure no file is opened or read,
\* no entry is parsed, signed or printed, no step is done twice, and the
\* run ends with a non-zero status.
C6_FailFast ==
  /\ \A p, q \in 1..Len(events) :
       p < q /\ events[p].op = "raise" => events[q].op \notin WorkOps \cup {"raise"}
  /\ \A p, q \in 1..Len(events) :
       p < q /\ events[p].op \in WorkOps => events[p] # events[q]
  /\ (\E p \in 1..Len(events) : events[p].op = "raise") =>
       /\ pc \in {"with_exit", "exited"}
       /\ Exited => exit_code # 0

C6_Witness ==
  /\ Exited
  /\ Len(Doc) = 3
  /\ NumEntries = 3
  /\ Doc[1].value.kind = "malformed"
  /\ events[Len(events)] = Ev("raise", 1)

\* C7 (as amended): every run terminates; it ends with status 0 only after
\* the token line of every entry has been emitted; and it ends with a
\* non-zero status if and only if the file is missing, is not valid JSON,
\* does not hold a JSON object, or some entry fails to parse or sign.
C7_ExitStatus ==
  /\ <>Exited
  /\ [](Exited =>
          /\ exit_code \in {0, 1}
          /\ exit_code = 0 =>
               /\ Len(TokenLines) = NumEntries
               /\ \A k \in DocKeys :
                    \E p \in 1..Len(stdout) :
                      stdout[p].type = "token" /\ stdout[p].key_id = k
          /\ exit_code # 0 <=>
               \/ file.kind \in {"missing", "invalid_json", "not_object"}
               \/ FailRanks # {})

\* C7 as stated: a run ends with a non-zero status if and only if the file
\* is missing or some entry fails to parse or sign.
C7_AsStated ==
  Exited =>
    /\ exit_code = 0 => Len(TokenLines) = NumEntries
    /\ exit_code # 0 <=> (file.kind = "missing" \/ FailRanks # {})

C7_Witness ==
  /\ Exited
  /\ file.kind = "invalid_json"
  /\ exit_code # 0
  /\ ~fd_open

\* C8: the file is opened, read and closed before any JWK is parsed; an
\* entry is parsed before it is signed and signed before it is printed;
\* and entry i is printed before entry i+1 is parsed.
C8_StrictSequence ==
  /\ pc \in {"for_items", "sign", "print"} => ~fd_open
  /\ \A p \in 1..Len(events) :
       LET e == events[p] IN
         /\ e.op = "json_load" => Before(Ev("open", 0), p)
         /\ e.op = "close" => Before(Ev("json_load", 0), p)
         /\ e.op = "from_json" =>
              /\ Before(Ev("close", 0), p)
              /\ e.i > 1 => Before(Ev("print_token", e.i - 1), p)
         /\ e.op = "sign" => Before(Ev("from_json", e.i), p)
         /\ e.op = "print_token" => Before(Ev("sign", e.i), p)

C8_Witness ==
  /\ Len(events) >= 2
  /\ events[Len(events)] = Ev("from_json", 3)
  /\ events[Len(events) - 1] = Ev("print_token", 2)
  /\ ~fd_open

\* C9: when the first entry that fails to parse or sign is the k-th, the
\* output at termination is the header line followed by the token lines of
\* entries 1..k-1 in order; a missing or invalid file leaves the header
\* line alone; and a printed line is never retracted.
C9_PrefixOnFailure ==
  /\ [](Exited /\ file.kind \in {"missing", "invalid_json"} =>
          stdout = <<HeaderLine>>)
  /\ [](Exited /\ file.kind = "object" /\ FailRanks # {} =>
          /\ Len(stdout) = Min(FailRanks)
          /\ stdout[1] = HeaderLine
          /\ \A p \in 2..Len(stdout) :
               /\ stdout[p].type = "token"
               /\ Rank(stdout[p].key_id) = p - 1)
  /\ [][/\ Len(stdout') >= Len(stdout)
        /\ SubSeq(stdout', 1, Len(stdout)) = stdout]_vars

C9_Witness ==
  /\ Exited
  /\ file.kind = "object"
  /\ FailRanks # {}
  /\ Min(FailRanks) = 3
  /\ Len(stdout) = 3

\* C10: the header line is written before the key-store file is opened,
\* and in every run, also when the file is missing or not valid JSON, it
\* is the first line of the output.
C10_HeaderFirst ==
  /\ \A p \in 1..Len(events) :
       events[p].op = "open" => Before(Ev("print_header", 0), p)
  /\ fd_open => stdout # <<>>
  /\ stdout # <<>> => stdout[1] = HeaderLine
  /\ Exited => stdout # <<>> /\ Len(HeaderLines) = 1

C10_Witness ==
  /\ pc = "gen_start"
  /\ file.kind \in {"missing", "invalid_json"}
  /\ stdout = <<HeaderLine>>
  /\ ~fd_open
  /\ ~(\E p \in 1..Len(events) : events[p].op = "open")

====
